---------------------------- MODULE Spec2Model ----------------------------
(***************************************************************************)
(* Model of the WarcraftLogs client class WCL (wcl.py).                    *)
(*                                                                         *)
(* A Python str is a sequence of one-character strings, so that            *)
(* concatenation, slicing, splitting and percent-encoding are computed and *)
(* not assumed.  A value handed to an f-string or to str() is a record     *)
(* [t, n, s]: an int (t = "int", n) or a str (t = "str", s).  A dict is    *)
(* the sequence of its items in insertion order, each [k, v].              *)
(*                                                                         *)
(* Every method builds its URI and calls requests.get, which blocks; the   *)
(* transport then either fails or hands back a body, which response.json() *)
(* decodes.  Callers are threads sharing one WCL object.                    *)
(***************************************************************************)
EXTENDS Integers, Sequences, FiniteSets, TLC

\* ---------------------------------------------------------------- strings
S_source_uri ==
    << "h", "t", "t", "p", "s", ":", "/", "/", "c", "l", "a", "s", "s", "i", "c", ".", "w", "a", "r", "c", "r", "a", "f", "t", "l", "o", "g", "s", ".", "c", "o", "m", ":", "4", "4", "3", "/", "v", "1" >>
S_host_uri ==
    << "h", "t", "t", "p", "s", ":", "/", "/", "h", "o", "s", "t", "/", "v", "1" >>
S_KEY123 ==
    << "K", "E", "Y", "1", "2", "3" >>
S_key2 ==
    << "0", "3", "2", "5", "c", "4" >>
S_zones_tail ==
    << "/", "z", "o", "n", "e", "s", "&", "a", "p", "i", "_", "k", "e", "y", "=" >>
S_classes_tail ==
    << "/", "c", "l", "a", "s", "s", "e", "s", "&", "a", "p", "i", "_", "k", "e", "y", "=" >>
S_rankings_encounter ==
    << "/", "r", "a", "n", "k", "i", "n", "g", "s", "/", "e", "n", "c", "o", "u", "n", "t", "e", "r", "/" >>
S_rankings_character ==
    << "/", "r", "a", "n", "k", "i", "n", "g", "s", "/", "c", "h", "a", "r", "a", "c", "t", "e", "r", "/" >>
S_parses_character ==
    << "/", "p", "a", "r", "s", "e", "s", "/", "c", "h", "a", "r", "a", "c", "t", "e", "r", "/" >>
S_reports_guild ==
    << "/", "r", "e", "p", "o", "r", "t", "s", "/", "g", "u", "i", "l", "d", "/" >>
S_reports_user ==
    << "/", "r", "e", "p", "o", "r", "t", "s", "/", "u", "s", "e", "r", "/" >>
S_report_fights ==
    << "/", "r", "e", "p", "o", "r", "t", "/", "f", "i", "g", "h", "t", "s", "/" >>
S_report_events ==
    << "/", "r", "e", "p", "o", "r", "t", "/", "e", "v", "e", "n", "t", "s", "/" >>
S_report_tables ==
    << "/", "r", "e", "p", "o", "r", "t", "/", "t", "a", "b", "l", "e", "s", "/" >>
S_slash ==
    << "/" >>
S_qmark ==
    << "?" >>
S_amp_api_key ==
    << "&", "a", "p", "i", "_", "k", "e", "y", "=" >>
S_api_key_eq ==
    << "a", "p", "i", "_", "k", "e", "y", "=" >>
S_metric ==
    << "m", "e", "t", "r", "i", "c" >>
S_class ==
    << "c", "l", "a", "s", "s" >>
S_filter ==
    << "f", "i", "l", "t", "e", "r" >>
S_translate ==
    << "t", "r", "a", "n", "s", "l", "a", "t", "e" >>
S_dps ==
    << "d", "p", "s" >>
S_inject ==
    << "x", "&", "y", "=", "z" >>
S_spacey ==
    << "a", " ", "b", "%", "#" >>
S_Kampf ==
    << "K", "a", "m", "p", "f" >>
S_not_like_this ==
    << "n", "o", "t", " ", "l", "i", "k", "e", " ", "t", "h", "i", "s" >>
S_slashy ==
    << "a", "/", "b", "%", "c" >>
S_herod ==
    << "h", "e", "r", "o", "d" >>
S_US ==
    << "U", "S" >>
S_code ==
    << "a", "B", "c", "1" >>
S_casts ==
    << "c", "a", "s", "t", "s" >>
S_null ==
    << "n", "u", "l", "l" >>
S_C2_uri ==
    << "h", "t", "t", "p", "s", ":", "/", "/", "h", "o", "s", "t", "/", "v", "1", "/", "r", "a", "n", "k", "i", "n", "g", "s", "/", "e", "n", "c", "o", "u", "n", "t", "e", "r", "/", "6", "1", "1", "?", "m", "e", "t", "r", "i", "c", "=", "d", "p", "s", "&", "c", "l", "a", "s", "s", "=", "1", "1", "&", "a", "p", "i", "_", "k", "e", "y", "=", "K", "E", "Y", "1", "2", "3" >>
S_C3_path ==
    << "/", "r", "e", "p", "o", "r", "t", "s", "/", "g", "u", "i", "l", "d", "/", "n", "o", "t", "%", "2", "0", "l", "i", "k", "e", "%", "2", "0", "t", "h", "i", "s", "/", "h", "e", "r", "o", "d", "/", "U", "S" >>
B_empty_list ==
    << "[", "]" >>
B_list ==
    << "[", "1", ",", "2", "0", "]" >>
B_dict ==
    << "{", "}" >>
B_int ==
    << "7" >>
B_html ==
    << "<", "h", "t", "m", "l", ">" >>
B_truncated ==
    << "[", "1", "," >>

\* ----------------------------------------------------------------- values
IntV(n) == [t |-> "int", n |-> n, s |-> <<>>]
StrV(s) == [t |-> "str", n |-> 0, s |-> s]

DigitChar == <<"0", "1", "2", "3", "4", "5", "6", "7", "8", "9">>

RECURSIVE Decimal(_)
\* str(int) of a non-negative int: its decimal digits.
Decimal(n) ==
    IF n < 10 THEN <<DigitChar[n + 1]>>
    ELSE Decimal(n \div 10) \o <<DigitChar[(n % 10) + 1]>>

\* str(value), also what an f-string field {value} renders.
Str(v) == IF v.t = "int" THEN Decimal(v.n) ELSE v.s

\* s[1:]
Slice1(s) == IF s = <<>> THEN <<>> ELSE Tail(s)

\* --------------------------------------------------------- __format_params
RECURSIVE FormatLoop(_, _)
\* for key, value in params.items():
\*     paramstring = paramstring + '&' + key + '=' + str(value)
FormatLoop(params, paramstring) ==
    IF params = <<>> THEN paramstring
    ELSE FormatLoop(Tail(params),
                    paramstring \o <<"&">> \o Head(params).k \o <<"=">>
                                \o Str(Head(params).v))

\* A formatter that empties the mapping while it reads it (popitem).
FormatParamsRunPop(params) ==
    [ret |-> Slice1(FormatLoop(params, <<>>)), params |-> <<>>]

\* One run of __format_params: what it returns and what the mapping holds
\* afterwards (the loop only reads it).
FormatParamsRun(params) ==
    [ret |-> Slice1(FormatLoop(params, <<>>)), params |-> params]

\* A formatter that forgets the [1:] slice.
format_params_noslice(params) == FormatLoop(params, <<>>)

format_params(params) == FormatParamsRun(params).ret

\* ---------------------------------------------------------------- methods
\* Each get_* operator is the URI the method hands to __make_request.
get_zone_list(self) == self.request_uri \o S_zones_tail \o self.api_key

get_class_list(self) == self.request_uri \o S_classes_tail \o self.api_key

get_rankings_list_encounter(self, encounterID, params) ==
    self.request_uri \o S_rankings_encounter \o Str(encounterID)
        \o S_qmark \o format_params(params) \o S_amp_api_key \o self.api_key

get_rankings_list_character(self, characterName, serverName, serverRegion, params) ==
    self.request_uri \o S_rankings_character \o Str(characterName)
        \o S_slash \o Str(serverName) \o S_slash \o Str(serverRegion)
        \o S_qmark \o format_params(params) \o S_amp_api_key \o self.api_key

get_parses_list_character(self, characterName, serverName, serverRegion, params) ==
    self.request_uri \o S_parses_character \o Str(characterName)
        \o S_slash \o Str(serverName) \o S_slash \o Str(serverRegion)
        \o S_qmark \o format_params(params) \o S_amp_api_key \o self.api_key

get_reports_list_guild(self, guildName, serverName, serverRegion, params) ==
    self.request_uri \o S_reports_guild \o Str(guildName)
        \o S_slash \o Str(serverName) \o S_slash \o Str(serverRegion)
        \o S_qmark \o format_params(params) \o S_amp_api_key \o self.api_key

get_reports_list_user(self, userName, params) ==
    self.request_uri \o S_reports_user \o Str(userName)
        \o S_qmark \o format_params(params) \o S_amp_api_key \o self.api_key

get_report_list_encounter(self, code, params) ==
    self.request_uri \o S_report_fights \o Str(code)
        \o S_qmark \o format_params(params) \o S_amp_api_key \o self.api_key

get_report_list_events(self, view, code, params) ==
    self.request_uri \o S_report_events \o Str(view) \o S_slash \o Str(code)
        \o S_qmark \o format_params(params) \o S_amp_api_key \o self.api_key

get_report_list_tables(self, view, code, params) ==
    self.request_uri \o S_report_tables \o Str(view) \o S_slash \o Str(code)
        \o S_qmark \o format_params(params) \o S_amp_api_key \o self.api_key

\* The methods that take no params argument, and those that take one.
PlainOps == {"get_zone_list", "get_class_list"}

ParamOps ==
    {"get_rankings_list_encounter", "get_rankings_list_character",
     "get_parses_list_character", "get_reports_list_guild",
     "get_reports_list_user", "get_report_list_encounter",
     "get_report_list_events", "get_report_list_tables"}

\* The URI method op builds from its positional arguments ids and the
\* mapping params.
MethodUri(self, op, ids, params) ==
    CASE op = "get_zone_list" -> get_zone_list(self)
      [] op = "get_class_list" -> get_class_list(self)
      [] op = "get_rankings_list_encounter" ->
            get_rankings_list_encounter(self, ids[1], params)
      [] op = "get_rankings_list_character" ->
            get_rankings_list_character(self, ids[1], ids[2], ids[3], params)
      [] op = "get_parses_list_character" ->
            get_parses_list_character(self, ids[1], ids[2], ids[3], params)
      [] op = "get_reports_list_guild" ->
            get_reports_list_guild(self, ids[1], ids[2], ids[3], params)
      [] op = "get_reports_list_user" ->
            get_reports_list_user(self, ids[1], params)
      [] op = "get_report_list_encounter" ->
            get_report_list_encounter(self, ids[1], params)
      [] op = "get_report_list_events" ->
            get_report_list_events(self, ids[1], ids[2], params)
      [] op = "get_report_list_tables" ->
            get_report_list_tables(self, ids[1], ids[2], params)

\* ---------------------------------------------------------- response.json()
\* Decoded JSON values (the subset the transport of this model produces):
\* null, a non-negative integer, a flat array of such integers, {}.
JNull == [t |-> "null", n |-> 0, items |-> <<>>]
JInt(n) == [t |-> "int", n |-> n, items |-> <<>>]
JList(items) == [t |-> "list", n |-> 0, items |-> items]
JDict == [t |-> "dict", n |-> 0, items |-> <<>>]
\* Not a value: the body is not JSON.
JInvalid == [t |-> "invalid", n |-> 0, items |-> <<>>]
\* Not a value: nothing was returned.
NoValue == [t |-> "none", n |-> 0, items |-> <<>>]

Digits == {DigitChar[i] : i \in 1..10}

DigitOf(ch) == (CHOOSE i \in 1..10 : DigitChar[i] = ch) - 1

\* A JSON number of the subset: digits, no leading zero.
IsJsonInt(s) ==
    /\ s # <<>>
    /\ \A i \in 1..Len(s) : s[i] \in Digits
    /\ (Len(s) > 1 => s[1] # "0")

RECURSIVE ParseInt(_)
ParseInt(s) ==
    IF s = <<>> THEN 0
    ELSE 10 * ParseInt(SubSeq(s, 1, Len(s) - 1)) + DigitOf(s[Len(s)])

RECURSIVE SplitOn(_, _)
\* s.split(ch): the pieces of s between occurrences of ch.
SplitOn(s, ch) ==
    IF \A i \in 1..Len(s) : s[i] # ch THEN <<s>>
    ELSE LET i == CHOOSE j \in 1..Len(s) :
                      s[j] = ch /\ \A k \in 1..(j - 1) : s[k] # ch
         IN <<SubSeq(s, 1, i - 1)>> \o SplitOn(SubSeq(s, i + 1, Len(s)), ch)

\* A decoder that hands back an array without its first element.
JsonDecodeDropFirst(body) ==
    IF body = S_null THEN JNull
    ELSE IF IsJsonInt(body) THEN JInt(ParseInt(body))
    ELSE IF body = B_dict THEN JDict
    ELSE IF Len(body) >= 2 /\ body[1] = "[" /\ body[Len(body)] = "]"
    THEN LET inner == SubSeq(body, 2, Len(body) - 1)
             parts == SplitOn(inner, ",")
         IN IF inner = <<>> THEN JList(<<>>)
            ELSE IF \A i \in 1..Len(parts) : IsJsonInt(parts[i])
            THEN JList(Tail([i \in 1..Len(parts) |-> ParseInt(parts[i])]))
            ELSE JInvalid
    ELSE JInvalid

\* json.loads on the subset; JInvalid where it raises.
JsonDecode(body) ==
    IF body = S_null THEN JNull
    ELSE IF IsJsonInt(body) THEN JInt(ParseInt(body))
    ELSE IF body = B_dict THEN JDict
    ELSE IF Len(body) >= 2 /\ body[1] = "[" /\ body[Len(body)] = "]"
    THEN LET inner == SubSeq(body, 2, Len(body) - 1)
             parts == SplitOn(inner, ",")
         IN IF inner = <<>> THEN JList(<<>>)
            ELSE IF \A i \in 1..Len(parts) : IsJsonInt(parts[i])
            THEN JList([i \in 1..Len(parts) |-> ParseInt(parts[i])])
            ELSE JInvalid
    ELSE JInvalid

\* ------------------------------------------------------------ __make_request
NoResult == [kind |-> "none", exc |-> "none", value |-> NoValue]
Returned(v) == [kind |-> "return", exc |-> "none", value |-> v]
Raised(e) == [kind |-> "raise", exc |-> e, value |-> NoValue]

\* A response.json() wrapped in try/except that returns None on bad JSON.
json_result_swallow(body) ==
    IF JsonDecode(body) = JInvalid THEN Returned(JNull)
    ELSE Returned(JsonDecode(body))

\* return response.json(): the decoded body, or the decoder's exception,
\* which nothing in the class catches.
json_result(body) ==
    IF JsonDecode(body) = JInvalid THEN Raised("DecodeError")
    ELSE Returned(JsonDecode(body))

\* ------------------------------------------------------------------ bounds
\* Most entries a caller puts in a params mapping.
MaxParams == 2
\* Threads sharing the client in ConcSpec.
NumCallers == 2

\* ------------------------------------------------------------------ inputs
\* The client as constructed: the class attributes as the source sets them
\* (api_key from the environment), or overridden for a test deployment.
Clients ==
    { [request_uri |-> S_source_uri, api_key |-> S_key2],
      [request_uri |-> S_host_uri, api_key |-> S_KEY123] }

Item(k, v) == [k |-> k, v |-> v]

\* Entries a caller may put in a mapping (one per key).
ParamPool ==
    { Item(S_metric, StrV(S_dps)), Item(S_class, IntV(11)),
      Item(S_filter, StrV(S_inject)), Item(S_translate, StrV(S_spacey)) }

\* dicts of at most MaxParams entries, in insertion order, keys distinct.
Mappings ==
    UNION { { m \in [1..n -> ParamPool] :
                \A i, j \in 1..n : i # j => m[i].k # m[j].k } : n \in 0..MaxParams }

Names == {StrV(S_Kampf), StrV(S_not_like_this), StrV(S_slashy), StrV(<<>>)}
Servers == {StrV(S_herod), StrV(<<>>)}
Regions == {StrV(S_US), StrV(<<>>)}
Codes == {StrV(S_code), StrV(<<>>)}
Views == {StrV(S_casts), StrV(<<>>)}
EncounterIDs == {IntV(611), StrV(<<>>)}

\* The positional arguments a caller may give method op.
IdTuples(op) ==
    CASE op \in PlainOps -> {<<>>}
      [] op = "get_rankings_list_encounter" -> {<<e>> : e \in EncounterIDs}
      [] op \in {"get_rankings_list_character", "get_parses_list_character",
                 "get_reports_list_guild"} ->
            {<<a, b, c>> : a \in Names, b \in Servers, c \in Regions}
      [] op = "get_reports_list_user" -> {<<u>> : u \in Names}
      [] op = "get_report_list_encounter" -> {<<c>> : c \in Codes}
      [] op \in {"get_report_list_events", "get_report_list_tables"} ->
            {<<v, c>> : v \in Views, c \in Codes}

\* Bodies the transport may hand back.
Bodies ==
    {B_empty_list, B_list, B_dict, S_null, B_int, B_html, B_truncated, <<>>}

Callers == 1..NumCallers
\* The single thread of Spec.
SeqCallers == {1}

NoCall == [op |-> "none", ids |-> <<>>, params |-> <<>>, dflt |-> FALSE]
NoResponse == [kind |-> "none", body |-> <<>>]

\* ------------------------------------------------------------------- state
VARIABLES
    client,    \* the class attributes request_uri and api_key
    defaults,  \* per method, its default params={} object
    pc,        \* per caller: "idle", "waiting" (inside requests.get), "done"
    args,      \* per caller: the call in progress
    held,      \* per caller: the caller's own mapping object, as it is now
    uri,       \* per caller: the URI handed to requests.get
    sent,      \* per caller: GET requests issued by the call in progress
    resp,      \* per caller: what the transport answered
    result     \* per caller: what the call gave its caller

vars == <<client, defaults, pc, args, held, uri, sent, resp, result>>

Init ==
    /\ client \in Clients
    /\ defaults = [op \in ParamOps |-> <<>>]
    /\ pc = [c \in Callers |-> "idle"]
    /\ args = [c \in Callers |-> NoCall]
    /\ held = [c \in Callers |-> <<>>]
    /\ uri = [c \in Callers |-> <<>>]
    /\ sent = [c \in Callers |-> 0]
    /\ resp = [c \in Callers |-> NoResponse]
    /\ result = [c \in Callers |-> NoResult]

\* ----------------------------------------------------------------- actions
\* Caller c calls method op with positional arguments ids and its own
\* mapping p (dflt = FALSE), or leaves params out (dflt = TRUE) and so gets
\* the method's default object.  The method formats the URI and enters
\* requests.get(uri).
Call(c, op, ids, p, dflt) ==
    /\ pc[c] = "idle"
    /\ LET obj == IF dflt THEN defaults[op] ELSE p
           run == IF op \in ParamOps THEN FormatParamsRun(obj)
                  ELSE [ret |-> <<>>, params |-> obj]
       IN /\ uri' = [uri EXCEPT ![c] = MethodUri(client, op, ids, obj)]
          /\ defaults' = IF dflt THEN [defaults EXCEPT ![op] = run.params]
                         ELSE defaults
          /\ held' = [held EXCEPT ![c] = IF dflt THEN <<>> ELSE run.params]
    /\ args' = [args EXCEPT ![c] =
                    [op |-> op, ids |-> ids, params |-> p, dflt |-> dflt]]
    /\ sent' = [sent EXCEPT ![c] = sent[c] + 1]
    /\ pc' = [pc EXCEPT ![c] = "waiting"]
    /\ UNCHANGED <<client, resp, result>>

\* A transport failure handled by asking again.
TransportFailsRetry(c) ==
    /\ pc[c] = "waiting"
    /\ sent[c] < 3
    /\ sent' = [sent EXCEPT ![c] = sent[c] + 1]
    /\ UNCHANGED <<client, defaults, pc, args, held, uri, resp, result>>

\* requests.get raises (connection refused, timeout, ...): the exception
\* leaves __make_request and the method.
TransportFails(c) ==
    /\ pc[c] = "waiting"
    /\ resp' = [resp EXCEPT ![c] = [kind |-> "error", body |-> <<>>]]
    /\ result' = [result EXCEPT ![c] = Raised("TransportError")]
    /\ pc' = [pc EXCEPT ![c] = "done"]
    /\ UNCHANGED <<client, defaults, args, held, uri, sent>>

\* requests.get returns a response with this body; response.json() decodes
\* it and the method returns what __make_request returned.
Receive(c, body) ==
    /\ pc[c] = "waiting"
    /\ resp' = [resp EXCEPT ![c] = [kind |-> "body", body |-> body]]
    /\ result' = [result EXCEPT ![c] = json_result(body)]
    /\ pc' = [pc EXCEPT ![c] = "done"]
    /\ UNCHANGED <<client, defaults, args, held, uri, sent>>

\* The caller has taken the outcome and is free to call again.
Finish(c) ==
    /\ pc[c] = "done"
    /\ pc' = [pc EXCEPT ![c] = "idle"]
    /\ args' = [args EXCEPT ![c] = NoCall]
    /\ held' = [held EXCEPT ![c] = <<>>]
    /\ uri' = [uri EXCEPT ![c] = <<>>]
    /\ sent' = [sent EXCEPT ![c] = 0]
    /\ resp' = [resp EXCEPT ![c] = NoResponse]
    /\ result' = [result EXCEPT ![c] = NoResult]
    /\ UNCHANGED <<client, defaults>>

\* ----------------------------------------------------- one thread, any call
CallPlain(c) ==
    \E op \in PlainOps : Call(c, op, <<>>, <<>>, FALSE)

CallWithParams(c) ==
    \E op \in ParamOps : \E ids \in IdTuples(op) : \E p \in Mappings :
        Call(c, op, ids, p, FALSE)

CallWithDefault(c) ==
    \E op \in ParamOps : \E ids \in IdTuples(op) : Call(c, op, ids, <<>>, TRUE)

Next ==
    \E c \in SeqCallers :
        \/ CallPlain(c)
        \/ CallWithParams(c)
        \/ CallWithDefault(c)
        \/ TransportFails(c)
        \/ \E body \in Bodies : Receive(c, body)
        \/ Finish(c)

Spec == Init /\ [][Next]_vars

\* ------------------------------------------- several threads, a few calls
\* The calls the threads of ConcSpec make.
ConcCalls ==
    { [op |-> "get_zone_list", ids |-> <<>>, params |-> <<>>, dflt |-> FALSE],
      [op |-> "get_rankings_list_encounter", ids |-> <<IntV(611)>>,
       params |-> <<Item(S_metric, StrV(S_dps)), Item(S_class, IntV(11))>>,
       dflt |-> FALSE],
      [op |-> "get_rankings_list_encounter", ids |-> <<IntV(611)>>,
       params |-> <<>>, dflt |-> TRUE],
      [op |-> "get_reports_list_guild",
       ids |-> <<StrV(S_not_like_this), StrV(S_herod), StrV(S_US)>>,
       params |-> <<>>, dflt |-> TRUE],
      [op |-> "get_reports_list_user", ids |-> <<StrV(S_Kampf)>>,
       params |-> <<Item(S_filter, StrV(S_inject))>>, dflt |-> FALSE],
      [op |-> "get_report_list_tables", ids |-> <<StrV(S_casts), StrV(S_code)>>,
       params |-> <<>>, dflt |-> TRUE] }

ConcBodies == {B_list, B_dict, B_html}

ConcCall(c) ==
    \E k \in ConcCalls : Call(c, k.op, k.ids, k.params, k.dflt)

ConcNext ==
    \E c \in Callers :
        \/ ConcCall(c)
        \/ TransportFails(c)
        \/ \E body \in ConcBodies : Receive(c, body)
        \/ Finish(c)

ConcSpec == Init /\ [][ConcNext]_vars

\* ======================================================================
\* What the specification says of the client, stated independently of the
\* operators above.
\* ======================================================================
T_zones ==
    << "z", "o", "n", "e", "s" >>
T_classes ==
    << "c", "l", "a", "s", "s", "e", "s" >>
T_rankings ==
    << "r", "a", "n", "k", "i", "n", "g", "s" >>
T_encounter ==
    << "e", "n", "c", "o", "u", "n", "t", "e", "r" >>
T_character ==
    << "c", "h", "a", "r", "a", "c", "t", "e", "r" >>
T_parses ==
    << "p", "a", "r", "s", "e", "s" >>
T_reports ==
    << "r", "e", "p", "o", "r", "t", "s" >>
T_guild ==
    << "g", "u", "i", "l", "d" >>
T_user ==
    << "u", "s", "e", "r" >>
T_report ==
    << "r", "e", "p", "o", "r", "t" >>
T_fights ==
    << "f", "i", "g", "h", "t", "s" >>
T_events ==
    << "e", "v", "e", "n", "t", "s" >>
T_tables ==
    << "t", "a", "b", "l", "e", "s" >>

Lit(s) == [lit |-> s, slot |-> 0]
Slot(i) == [lit |-> <<>>, slot |-> i]

\* The documented resource path of each operation: literal segments and the
\* slots of its required identifiers.
Template(op) ==
    CASE op = "get_zone_list" -> <<Lit(T_zones)>>
      [] op = "get_class_list" -> <<Lit(T_classes)>>
      [] op = "get_rankings_list_encounter" ->
            <<Lit(T_rankings), Lit(T_encounter), Slot(1)>>
      [] op = "get_rankings_list_character" ->
            <<Lit(T_rankings), Lit(T_character), Slot(1), Slot(2), Slot(3)>>
      [] op = "get_parses_list_character" ->
            <<Lit(T_parses), Lit(T_character), Slot(1), Slot(2), Slot(3)>>
      [] op = "get_reports_list_guild" ->
            <<Lit(T_reports), Lit(T_guild), Slot(1), Slot(2), Slot(3)>>
      [] op = "get_reports_list_user" ->
            <<Lit(T_reports), Lit(T_user), Slot(1)>>
      [] op = "get_report_list_encounter" ->
            <<Lit(T_report), Lit(T_fights), Slot(1)>>
      [] op = "get_report_list_events" ->
            <<Lit(T_report), Lit(T_events), Slot(1), Slot(2)>>
      [] op = "get_report_list_tables" ->
            <<Lit(T_report), Lit(T_tables), Slot(1), Slot(2)>>

RECURSIVE JoinWith(_, _)
\* The strings of parts, each preceded by sep except the first.
JoinWith(parts, sep) ==
    IF parts = <<>> THEN <<>>
    ELSE IF Len(parts) = 1 THEN parts[1]
    ELSE parts[1] \o sep \o JoinWith(Tail(parts), sep)

\* The mapping a call works with: the caller's, or the empty default.
Effective(a) == IF a.dflt THEN <<>> ELSE a.params

\* Template with the identifiers substituted as they are.
SubstitutedPath(op, ids) ==
    LET t == Template(op)
    IN JoinWith([i \in 1..Len(t) |->
                    <<"/">> \o (IF t[i].slot = 0 THEN t[i].lit
                                ELSE Str(ids[t[i].slot]))], <<>>)

\* key=value of every entry, then api_key=<secret>, joined by '&'.
QueryWithKey(params, key) ==
    JoinWith([i \in 1..(Len(params) + 1) |->
                 IF i <= Len(params)
                 THEN params[i].k \o <<"=">> \o Str(params[i].v)
                 ELSE S_api_key_eq \o key], <<"&">>)

IsPrefix(p, s) == Len(p) <= Len(s) /\ SubSeq(s, 1, Len(p)) = p

Contains(s, ch) == \E i \in 1..Len(s) : s[i] = ch

\* s up to its first ch (all of s when there is none), and what follows it.
Before(s, ch) == SplitOn(s, ch)[1]
After(s, ch) ==
    IF Contains(s, ch) THEN SubSeq(s, Len(Before(s, ch)) + 2, Len(s)) ELSE <<>>

\* ------------------------------------------------------ percent-encoding
\* The reserved characters of the inputs and their two hex digits.
PctCode ==
    [ch \in {" ", "%", "/", "&", "=", "#", "?"} |->
        CASE ch = " " -> <<"2", "0">>
          [] ch = "%" -> <<"2", "5">>
          [] ch = "/" -> <<"2", "F">>
          [] ch = "&" -> <<"2", "6">>
          [] ch = "=" -> <<"3", "D">>
          [] ch = "#" -> <<"2", "3">>
          [] ch = "?" -> <<"3", "F">>]

ReservedChars == DOMAIN PctCode

RECURSIVE PctEncode(_)
PctEncode(s) ==
    IF s = <<>> THEN <<>>
    ELSE (IF Head(s) \in ReservedChars THEN <<"%">> \o PctCode[Head(s)]
          ELSE <<Head(s)>>) \o PctEncode(Tail(s))

\* s holds no raw reserved character: a '%' only as the head of the
\* triplet of a reserved character.
WellEncoded(s) ==
    \A i \in 1..Len(s) :
        s[i] \in ReservedChars =>
            /\ s[i] = "%"
            /\ i + 2 <= Len(s)
            /\ \E ch \in ReservedChars : PctCode[ch] = <<s[i + 1], s[i + 2]>>

RECURSIVE PctDecode(_)
\* Percent-decoding of a well-encoded string (other characters are kept).
PctDecode(s) ==
    IF s = <<>> THEN <<>>
    ELSE IF /\ Head(s) = "%"
            /\ Len(s) >= 3
            /\ \E ch \in ReservedChars : PctCode[ch] = <<s[2], s[3]>>
    THEN <<CHOOSE ch \in ReservedChars : PctCode[ch] = <<s[2], s[3]>> >>
             \o PctDecode(SubSeq(s, 4, Len(s)))
    ELSE <<Head(s)>> \o PctDecode(Tail(s))

\* ------------------------------------------------------------ JSON oracle
\* The bodies of Bodies that are JSON, and the value each stands for.
IsJsonBody(body) == body \in {B_empty_list, B_list, B_dict, S_null, B_int}

ExpectedJson(body) ==
    CASE body = B_empty_list -> JList(<<>>)
      [] body = B_list -> JList(<<1, 20>>)
      [] body = B_dict -> JDict
      [] body = S_null -> JNull
      [] body = B_int -> JInt(7)

Active(c) == pc[c] # "idle"
HasEmptyId(a) == \E i \in 1..Len(a.ids) : Str(a.ids[i]) = <<>>

\* ================================================================ claims
\* C1: for every operation and every mapping, the requested URI is exactly
\* base URL + path with the identifiers substituted + '?' + the mapping's
\* key=value pairs joined by '&' with api_key=<secret> as the last one; so it
\* always has the '?' and never an empty pair.
C1_UriShape ==
    \A c \in Callers :
        Active(c) =>
            uri[c] = client.request_uri
                        \o SubstitutedPath(args[c].op, args[c].ids)
                        \o <<"?">>
                        \o QueryWithKey(Effective(args[c]), client.api_key)

C2_Call ==
    [op |-> "get_rankings_list_encounter", ids |-> <<IntV(611)>>,
     params |-> <<Item(S_metric, StrV(S_dps)), Item(S_class, IntV(11))>>,
     dflt |-> FALSE]

C2_Client == [request_uri |-> S_host_uri, api_key |-> S_KEY123]

\* C2: rankings by encounter 611 with {metric: "dps", class: 11}, on a client
\* with base https://host/v1 and key KEY123, requests exactly
\* https://host/v1/rankings/encounter/611?metric=dps&class=11&api_key=KEY123
\* and returns the JSON value of the body the transport hands back.
C2_Scenario ==
    \A c \in Callers :
        (client = C2_Client /\ args[c] = C2_Call) =>
            /\ uri[c] = S_C2_uri
            /\ (pc[c] = "done" /\ resp[c].kind = "body"
                    /\ IsJsonBody(resp[c].body)) =>
                   result[c] = Returned(ExpectedJson(resp[c].body))

C2_Witness ==
    \E c \in Callers :
        /\ client = C2_Client
        /\ args[c] = C2_Call
        /\ pc[c] = "done"
        /\ uri[c] = S_C2_uri
        /\ resp[c].body = B_list
        /\ result[c] = Returned(JList(<<1, 20>>))

\* The path of a requested URI: what follows the base URL, up to the '?'.
PathOf(u) == Before(SubSeq(u, Len(client.request_uri) + 1, Len(u)), "?")

C3_Ids == <<StrV(S_not_like_this), StrV(S_herod), StrV(S_US)>>

\* C3: every required identifier put into the path is percent-encoded: the
\* path has the template's segments, and the segment of each identifier
\* holds no raw reserved character and decodes to the identifier; reports by
\* guild("not like this", "herod", "US") has the path
\* /reports/guild/not%20like%20this/herod/US.
C3_PathEncoded ==
    \A c \in Callers :
        (Active(c) /\ args[c].op \in ParamOps) =>
            LET t == Template(args[c].op)
                segs == SplitOn(PathOf(uri[c]), "/")
            IN /\ (args[c].op = "get_reports_list_guild" /\ args[c].ids = C3_Ids)
                     => PathOf(uri[c]) = S_C3_path
               /\ Len(segs) = Len(t) + 1
               /\ segs[1] = <<>>
               /\ \A i \in 1..Len(t) :
                     IF t[i].slot = 0 THEN segs[i + 1] = t[i].lit
                     ELSE /\ WellEncoded(segs[i + 1])
                          /\ PctDecode(segs[i + 1]) = Str(args[c].ids[t[i].slot])

\* C4: the formatter's string has exactly one key=value pair per entry of
\* the mapping, in insertion order, joined by single '&', with no leading
\* and no trailing '&'; the empty mapping gives the empty string.
C4_OnePairPerEntry ==
    \A c \in Callers :
        (Active(c) /\ args[c].op \in ParamOps) =>
            LET p == Effective(args[c])
                q == format_params(p)
                pairs == SplitOn(q, "&")
            IN IF p = <<>> THEN q = <<>>
               ELSE /\ q[1] # "&"
                    /\ q[Len(q)] # "&"
                    /\ Len(pairs) = Len(p)
                    /\ \A i \in 1..Len(p) :
                          IsPrefix(p[i].k \o <<"=">>, pairs[i])

\* C5: every value of a mapping is percent-encoded in the query: the query
\* of the URI has one parameter per entry and then api_key, and the value
\* of each holds no raw reserved character and decodes to the entry's value.
C5_ValuesEncoded ==
    \A c \in Callers :
        (Active(c) /\ args[c].op \in ParamOps /\ Effective(args[c]) # <<>>) =>
            LET p == Effective(args[c])
                pairs == SplitOn(After(uri[c], "?"), "&")
            IN /\ Len(pairs) = Len(p) + 1
               /\ \A i \in 1..Len(p) :
                     /\ IsPrefix(p[i].k \o <<"=">>, pairs[i])
                     /\ LET v == SubSeq(pairs[i], Len(p[i].k) + 2, Len(pairs[i]))
                        IN /\ WellEncoded(v)
                           /\ PctDecode(v) = Str(p[i].v)

\* C6: a call with an empty required identifier issues no HTTP request and
\* fails with InvalidArgument.
C6_EmptyIdRejected ==
    \A c \in Callers :
        (Active(c) /\ HasEmptyId(args[c])) =>
            /\ sent[c] = 0
            /\ pc[c] # "waiting"
            /\ result[c] = Raised("InvalidArgument")

\* C7: when the transport hands back a JSON body, the call returns exactly
\* the value that body stands for.
C7_Passthrough ==
    \A c \in Callers :
        (pc[c] = "done" /\ resp[c].kind = "body" /\ IsJsonBody(resp[c].body)) =>
            result[c] = Returned(ExpectedJson(resp[c].body))

C7_Witness ==
    \E c \in Callers :
        /\ pc[c] = "done"
        /\ args[c].op = "get_report_list_events"
        /\ resp[c] = [kind |-> "body", body |-> B_list]
        /\ result[c] = Returned(JList(<<1, 20>>))

C9_State ==
    /\ \A op \in ParamOps : defaults[op] = <<>>
    /\ \A c \in Callers :
          Active(c) =>
              /\ held[c] = Effective(args[c])
              /\ uri[c] = MethodUri(client, args[c].op, args[c].ids,
                                    Effective(args[c]))

\* What a step may change.
C9_Step ==
    /\ client' = client
    /\ defaults' = defaults
    /\ \A c \in Callers :
          pc'[c] = pc[c] =>
              /\ args'[c] = args[c]
              /\ held'[c] = held[c]
              /\ uri'[c] = uri[c]
              /\ resp'[c] = resp[c]
              /\ result'[c] = result[c]

\* C9: under any interleaving of calls by concurrent callers, the base URL
\* and the key never change, no mapping (a caller's or a shared default) is
\* modified, each call's URI is that of its own arguments, and a step of one
\* call leaves every other call's URI and result as they were.
C9_Isolation == []C9_State /\ [][C9_Step]_vars

C9_Witness ==
    \E c, d \in Callers :
        /\ c # d
        /\ pc[c] = "done"
        /\ pc[d] = "waiting"
        /\ args[c].dflt /\ args[d].dflt
        /\ args[c].op = args[d].op
        /\ result[c].kind = "return"

\* C10: every call issues exactly one GET; a transport failure or a decode
\* failure reaches the caller as a failure, never as a normal return.
C10_ExactlyOneGet ==
    \A c \in Callers :
        /\ sent[c] = (IF Active(c) THEN 1 ELSE 0)
        /\ pc[c] = "done" =>
              /\ result[c].kind \in {"return", "raise"}
              /\ resp[c].kind = "error" => result[c] = Raised("TransportError")
              /\ (resp[c].kind = "body" /\ ~IsJsonBody(resp[c].body)) =>
                    result[c].kind = "raise"

C10_Witness ==
    \E c \in Callers :
        /\ pc[c] = "done"
        /\ sent[c] = 1
        /\ resp[c].kind = "error"
        /\ result[c] = Raised("TransportError")
=============================================================================
